---------------------------- MODULE Spec2Model ----------------------------
(***************************************************************************)
(* Model of the Rcpp attributes export generators (AttributesGen.cpp):     *)
(* the ExportsGenerator base class, the four concrete generators, the      *)
(* ExportsGenerators coordinator and the helpers that translate C++        *)
(* default arguments to R.                                                 *)
(*                                                                         *)
(* Text is modelled as a sequence of records, one record per emitted       *)
(* statement, holding every variable part of the statement; two texts are  *)
(* byte-for-byte equal exactly when the sequences are equal.  C++ strings  *)
(* that the code inspects character by character (default values) are      *)
(* sequences of one-character strings.                                     *)
(***************************************************************************)
EXTENDS Integers, Sequences, FiniteSets, TLC

VARIABLES
    disk,       \* target path -> [exists, text, writes]: the file system
    dirs,       \* whether the include directory exists
    pc,         \* position of the driver in the generation protocol
    gens,       \* generators_ : the generators added so far, in order
    batch,      \* the SourceFileAttributes passed to writeFunctions so far
    plan,       \* [fixed, files]: the batch a re-run is going to process
    includes,   \* the include lines passed to commit
    updated,    \* the vector returned by ExportsGenerators::commit / remove
    err,        \* the exception that ended the run, "" if none
    committed,  \* per generator index: what its commit returned ("" = not run)
    disk0,      \* the file system when the generators were constructed
    run,        \* number of the current generation run
    prev,       \* record of the previous run (batch, includes, disk, updated)
    tr,         \* the default value handed to the literal translator and
                \* what the translator made of it
    sugar       \* the subtraction expression built by operator- and what
                \* was read from it

vars == <<disk, dirs, pc, gens, batch, plan, includes, updated, err,
          committed, disk0, run, prev, tr, sugar>>

----------------------------------------------------------------------------
(* Bounds of the model *)

MaxFiles == 2

MaxArgs == 2

\* pieces of source text a default value is put together from
MaxFrags == 3

MaxRuns == 2

\* longest vector operand of operator-
MaxLen == 2

----------------------------------------------------------------------------
(* Sequence helpers *)

RECURSIVE Flatten(_)
Flatten(ss) == IF ss = <<>> THEN <<>> ELSE Head(ss) \o Flatten(Tail(ss))

Map(f(_), s) == [i \in 1..Len(s) |-> f(s[i])]

Range(s) == {s[i] : i \in 1..Len(s)}

----------------------------------------------------------------------------
(* Declaration model: Type, Argument, Function, Attribute,                 *)
(* SourceFileAttributes (AttributesTypes.h)                                *)

Package == "pkg"

PackageDir == "P"

FileSep == "/"

\* names that begin with a dot
HiddenNames == {".k"}

isVoid(type) == type = "void"

isHidden(function) == function.name \in HiddenNames

renamedTo(function, name) == [function EXCEPT !.name = name]

\* Function::signature(name): return type, name and the ordered argument types
signatureNamed(function, name) ==
    [t |-> "signature", type |-> function.type, name |-> name,
     args |-> [i \in 1..Len(function.arguments) |-> function.arguments[i].type]]

\* Function::signature()
signature(function) == signatureNamed(function, function.name)

isExportedFunction(attribute) == attribute.exported

hasInterface(attributes, name) ==
    IF name = "cpp" THEN attributes.hasCpp ELSE attributes.hasR

kInterfaceCpp == "cpp"

kInterfaceR == "r"

----------------------------------------------------------------------------
(* std::string operations on sequences of characters; positions are        *)
(* 0-based as in C++ and npos is -1                                        *)

npos == -1

substr(s, pos) == SubSeq(s, pos + 1, Len(s))

substrN(s, pos, n) == SubSeq(s, pos + 1, pos + n)

find(s, pat) ==
    LET hits == {i \in 0..(Len(s) - Len(pat)) : substrN(s, i, Len(pat)) = pat}
    IN  IF hits = {} THEN npos ELSE CHOOSE i \in hits : \A j \in hits : i <= j

Digits == {"0", "1", "2", "3", "4", "5", "6", "7", "8", "9"}

Whitespace == {" "}

\* number of leading whitespace characters (what operator>> skips)
RECURSIVE skipws(_)
skipws(s) ==
    IF s # <<>> /\ Head(s) \in Whitespace THEN 1 + skipws(Tail(s)) ELSE 0

RECURSIVE countDigits(_)
countDigits(s) ==
    IF s # <<>> /\ Head(s) \in Digits THEN 1 + countDigits(Tail(s)) ELSE 0

\* operator>>(double&): the length of the text consumed after the leading
\* whitespace ([sign] digits [. digits], at least one digit), 0 when the
\* extraction fails
extractDouble(s) ==
    LET sign  == IF s # <<>> /\ Head(s) \in {"+", "-"} THEN 1 ELSE 0
        s1    == substr(s, sign)
        int   == countDigits(s1)
        s2    == substr(s1, int)
        point == IF s2 # <<>> /\ Head(s2) = "." THEN 1 ELSE 0
        frac  == IF point = 1 THEN countDigits(Tail(s2)) ELSE 0
    IN  IF int + frac = 0 THEN 0 ELSE sign + int + point + frac

\* operator>>(std::string&): the word up to the next whitespace
RECURSIVE extractWord(_)
extractWord(s) ==
    IF s = <<>> \/ Head(s) \in Whitespace THEN <<>>
    ELSE <<Head(s)>> \o extractWord(Tail(s))

\* isQuoted (AttributesUtil): at least two characters, the first a quote
\* and the last the same quote
isQuoted(str) ==
    /\ Len(str) >= 2
    /\ str[1] \in {"'", "\""}
    /\ str[Len(str)] = str[1]

----------------------------------------------------------------------------
(* Helpers for converting C++ default arguments to R default arguments     *)

Str_L == <<"L">>

Str_create == <<":", ":", "c", "r", "e", "a", "t", "e">>

Str_RcppScope == <<"R", "c", "p", "p", ":", ":">>

Str_Matrix == <<"M", "a", "t", "r", "i", "x">>

Str_matrix == <<"m", "a", "t", "r", "i", "x">>

Str_CharacterVector ==
    <<"C", "h", "a", "r", "a", "c", "t", "e", "r", "V", "e", "c", "t", "o", "r">>

Str_IntegerVector ==
    <<"I", "n", "t", "e", "g", "e", "r", "V", "e", "c", "t", "o", "r">>

Str_NumericVector ==
    <<"N", "u", "m", "e", "r", "i", "c", "V", "e", "c", "t", "o", "r">>

Str_character == <<"c", "h", "a", "r", "a", "c", "t", "e", "r">>

Str_integer == <<"i", "n", "t", "e", "g", "e", "r">>

Str_numeric == <<"n", "u", "m", "e", "r", "i", "c">>

Str_true == <<"t", "r", "u", "e">>

Str_false == <<"f", "a", "l", "s", "e">>

Str_R_NilValue == <<"R", "_", "N", "i", "l", "V", "a", "l", "u", "e">>

Str_NA_STRING == <<"N", "A", "_", "S", "T", "R", "I", "N", "G">>

Str_NA_INTEGER == <<"N", "A", "_", "I", "N", "T", "E", "G", "E", "R">>

Str_NA_LOGICAL == <<"N", "A", "_", "L", "O", "G", "I", "C", "A", "L">>

Str_NA_REAL == <<"N", "A", "_", "R", "E", "A", "L">>

Str_TRUE == <<"T", "R", "U", "E">>

Str_FALSE == <<"F", "A", "L", "S", "E">>

Str_NULL == <<"N", "U", "L", "L">>

Str_NA == <<"N", "A">>

\* Mutant: the numeric matcher without the test for the L suffix
cppNumericArgToRArg_noSuffixTest(type, cppArg) ==
    IF extractDouble(substr(cppArg, skipws(cppArg))) > 0
    THEN IF find(cppArg, <<".">>) = npos /\ type # "double" /\ type # "float"
         THEN cppArg \o Str_L
         ELSE cppArg
    ELSE <<>>

cppNumericArgToRArg(type, cppArg) ==
    LET ws     == skipws(cppArg)
        n      == extractDouble(substr(cppArg, ws))
        rest   == substr(cppArg, ws + n)
        \* eofbit after the extraction of the number
        eof1   == rest = <<>>
        ws2    == skipws(rest)
        suffix == extractWord(substr(rest, ws2))
        \* eofbit after the extraction of the suffix
        eof2   == substr(rest, ws2 + Len(suffix)) = <<>>
    IN  IF n > 0
        THEN IF ~eof1 /\ eof2 /\ suffix = Str_L
             THEN cppArg
             ELSE IF find(cppArg, <<".">>) = npos
                     /\ type # "double" /\ type # "float"
                  THEN cppArg \o Str_L
                  ELSE cppArg
        ELSE <<>>

cppCreateArgToRArg(cppArg) ==
    LET createLoc == find(cppArg, Str_create)
    IN  IF createLoc = npos \/ createLoc + Len(Str_create) >= Len(cppArg)
        THEN <<>>
        ELSE LET type0   == substrN(cppArg, 0, createLoc)
                 rcppLoc == find(type0, Str_RcppScope)
                 type    == IF rcppLoc = 0 /\ Len(type0) > Len(Str_RcppScope)
                            THEN substr(type0, Len(Str_RcppScope))
                            ELSE type0
                 args    == substr(cppArg, createLoc + Len(Str_create))
             IN  IF type = Str_CharacterVector THEN Str_character \o args
                 ELSE IF type = Str_IntegerVector THEN Str_integer \o args
                 ELSE IF type = Str_NumericVector THEN Str_numeric \o args
                 ELSE <<>>

cppMatrixArgToRArg(cppArg) ==
    LET matrixLoc == find(cppArg, Str_Matrix)
    IN  IF matrixLoc = npos \/ matrixLoc + Len(Str_Matrix) >= Len(cppArg)
        THEN <<>>
        ELSE Str_matrix \o substr(cppArg, matrixLoc + Len(Str_Matrix))

cppLiteralArgToRArg(cppArg) ==
    IF cppArg = Str_true THEN Str_TRUE
    ELSE IF cppArg = Str_false THEN Str_FALSE
    ELSE IF cppArg = Str_R_NilValue THEN Str_NULL
    ELSE IF cppArg \in {Str_NA_STRING, Str_NA_INTEGER, Str_NA_LOGICAL, Str_NA_REAL}
         THEN Str_NA
    ELSE <<>>

\* Mutant: the quoted-string check tried after the other matchers
cppArgToRArg_quotedLast(type, cppArg) ==
    IF cppLiteralArgToRArg(cppArg) # <<>> THEN cppLiteralArgToRArg(cppArg)
    ELSE IF cppCreateArgToRArg(cppArg) # <<>> THEN cppCreateArgToRArg(cppArg)
    ELSE IF cppMatrixArgToRArg(cppArg) # <<>> THEN cppMatrixArgToRArg(cppArg)
    ELSE IF cppNumericArgToRArg(type, cppArg) # <<>>
         THEN cppNumericArgToRArg(type, cppArg)
    ELSE IF isQuoted(cppArg) THEN cppArg
    ELSE <<>>

cppArgToRArg(type, cppArg) ==
    IF isQuoted(cppArg) THEN cppArg
    ELSE IF cppLiteralArgToRArg(cppArg) # <<>> THEN cppLiteralArgToRArg(cppArg)
    ELSE IF cppCreateArgToRArg(cppArg) # <<>> THEN cppCreateArgToRArg(cppArg)
    ELSE IF cppMatrixArgToRArg(cppArg) # <<>> THEN cppMatrixArgToRArg(cppArg)
    ELSE IF cppNumericArgToRArg(type, cppArg) # <<>>
         THEN cppNumericArgToRArg(type, cppArg)
    ELSE <<>>

\* one entry of the R argument list: the name, its translated default (empty
\* when there is none) and whether showWarning was called for it
RArg(function, argument) ==
    LET rArg == IF argument.defaultValue # <<>>
                THEN cppArgToRArg(argument.type, argument.defaultValue)
                ELSE <<>>
    IN  [name |-> argument.name,
         default |-> rArg,
         warning |-> argument.defaultValue # <<>> /\ rArg = <<>>]

\* Mutant: the argument list given up at the first default value that cannot
\* be translated
generateRArgList_stopsAtFailure(function) ==
    LET failed == {i \in 1..Len(function.arguments) :
                      RArg(function, function.arguments[i]).warning}
        n == IF failed = {} THEN Len(function.arguments)
             ELSE (CHOOSE i \in failed : \A j \in failed : i <= j) - 1
    IN  [i \in 1..n |->
            [name |-> RArg(function, function.arguments[i]).name,
             default |-> RArg(function, function.arguments[i]).default]]

\* the returned argument list: per argument its name and its translated
\* default (the text after " = ", empty when nothing is emitted)
generateRArgList(function) ==
    [i \in 1..Len(function.arguments) |->
        [name |-> RArg(function, function.arguments[i]).name,
         default |-> RArg(function, function.arguments[i]).default]]

\* the showWarning calls generateRArgList makes, in order
showWarning(function) ==
    Flatten([i \in 1..Len(function.arguments) |->
        IF RArg(function, function.arguments[i]).warning
        THEN <<[t |-> "Unable to parse C++ default value",
                value |-> function.arguments[i].defaultValue,
                argument |-> function.arguments[i].name,
                function |-> function.name]>>
        ELSE <<>>])

----------------------------------------------------------------------------
(* ExportsGenerator: the base class                                        *)

kRcppExportsSuffix == "_RcppExports.h"

\* the four generators in the order the driver adds them
Kinds == <<"cpp", "include", "package", "R">>

targetFileOf(kind) ==
    IF kind = "cpp"
    THEN PackageDir \o FileSep \o "src" \o FileSep \o "RcppExports.cpp"
    ELSE IF kind = "include"
    THEN PackageDir \o FileSep \o "inst" \o FileSep \o "include" \o FileSep
         \o Package \o kRcppExportsSuffix
    ELSE IF kind = "package"
    THEN PackageDir \o FileSep \o "inst" \o FileSep \o "include" \o FileSep
         \o Package \o ".h"
    ELSE PackageDir \o FileSep \o "R" \o FileSep \o "RcppExports.R"

commentPrefixOf(kind) == IF kind = "R" THEN "#" ELSE "//"

Paths == {targetFileOf(Kinds[i]) : i \in 1..Len(Kinds)}

generatorToken == "10BE3573-1514-4C36-9D1C-5A225CD40393"

Line(text) == [t |-> "line", text |-> text]

MarkerLine(commentPrefix) ==
    [t |-> "generated by", prefix |-> commentPrefix,
     by |-> "Rcpp::compileAttributes"]

TokenLine(commentPrefix) ==
    [t |-> "Generator token", prefix |-> commentPrefix, token |-> generatorToken]

NoFile == [exists |-> FALSE, text |-> <<>>, writes |-> 0]

FileInfo_exists(d, path) == d[path].exists

\* isSafeToOverwrite: the target does not exist or carries the generator
\* marker on its first two lines
isSafeToOverwrite(g, d) ==
    \/ ~FileInfo_exists(d, g.targetFile)
    \/ /\ Len(g.existingCode) >= 2
       /\ g.existingCode[1] = MarkerLine(g.commentPrefix)
       /\ g.existingCode[2] = TokenLine(g.commentPrefix)

hasCppInterface(g) == g.hasCppInterface

exportValidationFunction == "RcppExport_validate"

exportValidationFunctionRegisteredName ==
    Package \o "_" \o exportValidationFunction

registerCCallableExportedName == Package \o "_RcppExport_registerCCallable"

\* Mutant: the constructor without the isSafeToOverwrite check
ExportsGenerator_new_noSafetyCheck(kind, d, ifsFail) ==
    LET targetFile == targetFileOf(kind)
        g == [kind |-> kind, targetFile |-> targetFile, package |-> Package,
              commentPrefix |-> commentPrefixOf(kind), hasCppInterface |-> FALSE,
              existingCode |-> IF FileInfo_exists(d, targetFile)
                               THEN d[targetFile].text ELSE <<>>,
              code |-> <<>>, cppExports |-> <<>>]
    IN  IF FileInfo_exists(d, targetFile) /\ ifsFail
        THEN [throw |-> "file_io_error", g |-> g]
        ELSE [throw |-> "", g |-> g]

\* ExportsGenerator::ExportsGenerator: ifsFail is the outcome of opening the
\* existing file for reading.  Yields the generator, or the exception thrown.
ExportsGenerator_new(kind, d, ifsFail) ==
    LET targetFile == targetFileOf(kind)
        readFails  == FileInfo_exists(d, targetFile) /\ ifsFail
        g == [kind |-> kind,
              targetFile |-> targetFile,
              package |-> Package,
              commentPrefix |-> commentPrefixOf(kind),
              hasCppInterface |-> FALSE,
              existingCode |-> IF FileInfo_exists(d, targetFile)
                               THEN d[targetFile].text ELSE <<>>,
              code |-> <<>>,
              cppExports |-> <<>>]
    IN  IF readFails THEN [throw |-> "file_io_error", g |-> g]
        ELSE IF ~isSafeToOverwrite(g, d) THEN [throw |-> "file_exists", g |-> g]
        ELSE [throw |-> "", g |-> g]

\* the text ExportsGenerator::commit compares and writes
generatedCodeOf(g, preamble) ==
    <<MarkerLine(g.commentPrefix), TokenLine(g.commentPrefix), Line("")>>
    \o preamble \o g.code

\* the write of text to the target of g
written(g, d, text) ==
    [d EXCEPT ![g.targetFile] =
        [exists |-> TRUE, text |-> text, writes |-> @.writes + 1]]

\* Mutant: commit that writes without comparing with the existing code
ExportsGenerator_commit_alwaysWrites(g, preamble, d, ofsFail) ==
    IF g.code = <<>> /\ ~FileInfo_exists(d, g.targetFile)
    THEN [disk |-> d, ret |-> "false"]
    ELSE IF ofsFail THEN [disk |-> d, ret |-> "throw"]
    ELSE [disk |-> written(g, d, generatedCodeOf(g, preamble)), ret |-> "true"]

\* Mutant: commit without the special case of an empty buffer and no file
ExportsGenerator_commit_noEmptyCheck(g, preamble, d, ofsFail) ==
    IF generatedCodeOf(g, preamble) # g.existingCode
    THEN IF ofsFail THEN [disk |-> d, ret |-> "throw"]
         ELSE [disk |-> written(g, d, generatedCodeOf(g, preamble)), ret |-> "true"]
    ELSE [disk |-> d, ret |-> "false"]

\* Mutant: commit that compares the buffer, not the header and the buffer,
\* with the existing code
ExportsGenerator_commit_comparesBody(g, preamble, d, ofsFail) ==
    IF g.code = <<>> /\ ~FileInfo_exists(d, g.targetFile)
    THEN [disk |-> d, ret |-> "false"]
    ELSE IF g.code # g.existingCode
    THEN IF ofsFail THEN [disk |-> d, ret |-> "throw"]
         ELSE [disk |-> written(g, d, generatedCodeOf(g, preamble)), ret |-> "true"]
    ELSE [disk |-> d, ret |-> "false"]

\* Mutant: commit whose failed open has already truncated the target
ExportsGenerator_commit_truncOnFail(g, preamble, d, ofsFail) ==
    IF g.code = <<>> /\ ~FileInfo_exists(d, g.targetFile)
    THEN [disk |-> d, ret |-> "false"]
    ELSE IF generatedCodeOf(g, preamble) # g.existingCode
    THEN IF ofsFail THEN [disk |-> written(g, d, <<>>), ret |-> "throw"]
         ELSE [disk |-> written(g, d, generatedCodeOf(g, preamble)), ret |-> "true"]
    ELSE [disk |-> d, ret |-> "false"]

\* ExportsGenerator::commit(preamble) on file system d; ofsFail is the
\* outcome of opening the target for writing.  ret is "true", "false" or
\* "throw" (file_io_error).
ExportsGenerator_commit(g, preamble, d, ofsFail) ==
    LET code          == g.code
        generatedCode == generatedCodeOf(g, preamble)
    IN  IF code = <<>> /\ ~FileInfo_exists(d, g.targetFile)
        THEN [disk |-> d, ret |-> "false"]
        ELSE IF generatedCode # g.existingCode
        THEN IF ofsFail
             THEN [disk |-> d, ret |-> "throw"]
             ELSE [disk |-> written(g, d, generatedCode), ret |-> "true"]
        ELSE [disk |-> d, ret |-> "false"]

\* removeFile (AttributesUtil): deletes the file if it exists
removeFile(d, path) ==
    IF FileInfo_exists(d, path)
    THEN [disk |-> [d EXCEPT ![path] =
                       [exists |-> FALSE, text |-> <<>>, writes |-> @.writes]],
          ret |-> "true"]
    ELSE [disk |-> d, ret |-> "false"]

\* Mutant: remove that reports a deletion whether or not the file existed
ExportsGenerator_remove_alwaysTrue(g, d) ==
    [disk |-> removeFile(d, g.targetFile).disk, ret |-> "true"]

\* ExportsGenerator::remove
ExportsGenerator_remove(g, d) == removeFile(d, g.targetFile)

----------------------------------------------------------------------------
(* generateCpp: the SEXP-based adapter functions                           *)

\* Mutant: the adapter named after the native function alone
adapterName_noContext(contextId, function) == function.name

adapterName(contextId, function) ==
    IF contextId # "" THEN contextId \o "_" \o function.name ELSE function.name

generateCppOne(attribute, includePrototype, contextId) ==
    LET function  == attribute.function
        arguments == function.arguments
        n         == Len(arguments)
    IN  (IF includePrototype
         THEN <<[t |-> "comment", name |-> function.name],
                [t |-> "prototype", function |-> function]>>
         ELSE <<>>)
        \o
        <<[t |-> "RcppExport SEXP",
           name |-> adapterName(contextId, function),
           params |-> [i \in 1..n |-> arguments[i].name \o "SEXP"],
           as |-> [i \in 1..n |->
                     [type |-> arguments[i].type, name |-> arguments[i].name,
                      from |-> arguments[i].name \o "SEXP"]],
           result |-> IF ~isVoid(function.type) THEN function.type ELSE "",
           call |-> function.name,
           callArgs |-> [i \in 1..n |-> arguments[i].name],
           return |-> IF isVoid(function.type) THEN "R_NilValue"
                      ELSE "Rcpp::wrap(result)"]>>

generateCpp(attributes, includePrototype, contextId) ==
    Flatten([i \in 1..Len(attributes.attrs) |->
               IF isExportedFunction(attributes.attrs[i])
               THEN generateCppOne(attributes.attrs[i], includePrototype, contextId)
               ELSE <<>>])

----------------------------------------------------------------------------
(* CppExportsGenerator: src/RcppExports.cpp                                *)

ostr(g, text) == [g EXCEPT !.code = @ \o text]

\* the attributes of the file that join cppExports_
cppExportsOf(attributes) ==
    IF hasInterface(attributes, kInterfaceCpp)
    THEN SelectSeq(attributes.attrs,
                   LAMBDA a : /\ isExportedFunction(a)
                              /\ ~isHidden(renamedTo(a.function, a.exportedName)))
    ELSE <<>>

\* Mutant: the registry filled under the generator's flag instead of the
\* file's own interface request
CppExports_doWriteFunctions_byFlag(g, attributes) ==
    [ostr(g, generateCpp(attributes, TRUE, g.package))
        EXCEPT !.cppExports = @ \o
            (IF g.hasCppInterface
             THEN SelectSeq(attributes.attrs,
                    LAMBDA a : /\ isExportedFunction(a)
                               /\ ~isHidden(renamedTo(a.function, a.exportedName)))
             ELSE <<>>)]

CppExports_doWriteFunctions(g, attributes) ==
    [ostr(g, generateCpp(attributes, TRUE, g.package))
        EXCEPT !.cppExports = @ \o cppExportsOf(attributes)]

\* Mutant: the registration keyed by the native name
registerCCallable_nativeKey(g, indent, exportedName, name) ==
    [t |-> "R_RegisterCCallable", indent |-> indent, package |-> g.package,
     key |-> g.package \o "_" \o name,
     fun |-> g.package \o "_" \o name]

registerCCallable(g, indent, exportedName, name) ==
    [t |-> "R_RegisterCCallable", indent |-> indent, package |-> g.package,
     key |-> g.package \o "_" \o exportedName,
     fun |-> g.package \o "_" \o name]

\* Mutant: the signature built under the native name
insertedSignature_nativeName(attr) == signature(attr.function)

\* the signature inserted for one entry of cppExports_
insertedSignature(attr) == signatureNamed(attr.function, attr.exportedName)

CppExports_writeEnd(g) ==
    IF hasCppInterface(g)
    THEN ostr(g,
           <<Line(""),
             [t |-> "validate", name |-> exportValidationFunctionRegisteredName,
              signatures |-> [i \in 1..Len(g.cppExports) |->
                                insertedSignature(g.cppExports[i])]],
             Line(""),
             [t |-> "registerCCallable", name |-> registerCCallableExportedName,
              calls |-> [i \in 1..Len(g.cppExports) |->
                           registerCCallable(g, 4, g.cppExports[i].exportedName,
                                             g.cppExports[i].function.name)]
                        \o <<registerCCallable(g, 4, exportValidationFunction,
                                               exportValidationFunction)>>,
              return |-> "R_NilValue"]>>)
    ELSE g

CppExports_preamble(incl) ==
    [i \in 1..Len(incl) |-> Line(incl[i])]
    \o <<Line("#include <string>"), Line("#include <set>"), Line(""),
         Line("using namespace Rcpp;"), Line("")>>

----------------------------------------------------------------------------
(* CppExportsIncludeGenerator: inst/include/<package>_RcppExports.h        *)

getCCallable(g, function) ==
    [t |-> "R_GetCCallable", package |-> g.package, name |-> function]

Include_getHeaderGuard(g) == "__" \o g.package \o "_RcppExports_h__"

CppExportsInclude_writeBegin(g) ==
    ostr(g,
      <<[t |-> "namespace", name |-> g.package],
        Line("using namespace Rcpp;"),
        [t |-> "validateSignature helper", require |-> g.package,
         fnType |-> "Ptr_validate", ptrName |-> "p_validate",
         resolve |-> getCCallable(g, exportValidationFunctionRegisteredName),
         notFoundIn |-> g.package]>>)

\* Mutant: the inline wrapper forwarding the arguments in reverse order
inlineWrapper_reversed(g, attribute) ==
    LET function == renamedTo(attribute.function, attribute.exportedName)
        args     == function.arguments
    IN  [t |-> "inline",
         function |-> function,
         fnType |-> "Ptr_" \o function.name,
         typedefParams |-> [i \in 1..Len(args) |-> "SEXP"],
         ptrName |-> "p_" \o function.name,
         validateSignature |-> signature(function),
         resolve |-> getCCallable(g, g.package \o "_" \o function.name),
         wrap |-> [i \in 1..Len(args) |-> args[Len(args) + 1 - i].name],
         returnAs |-> function.type]

\* the inline wrapper of one attribute
inlineWrapper(g, attribute) ==
    LET function == renamedTo(attribute.function, attribute.exportedName)
        args     == function.arguments
    IN  [t |-> "inline",
         function |-> function,
         fnType |-> "Ptr_" \o function.name,
         typedefParams |-> [i \in 1..Len(args) |-> "SEXP"],
         ptrName |-> "p_" \o function.name,
         validateSignature |-> signature(function),
         resolve |-> getCCallable(g, g.package \o "_" \o function.name),
         wrap |-> [i \in 1..Len(args) |-> args[i].name],
         \* return Rcpp::as<type >(resultSEXP), whatever the type ("" would
         \* say that the statement is left out)
         returnAs |-> function.type]

CppExportsInclude_doWriteFunctions(g, attributes) ==
    IF ~hasInterface(attributes, kInterfaceCpp) THEN g
    ELSE ostr(g,
           Flatten([i \in 1..Len(attributes.attrs) |->
              LET a == attributes.attrs[i] IN
              IF /\ isExportedFunction(a)
                 /\ ~isHidden(renamedTo(a.function, a.exportedName))
              THEN <<inlineWrapper(g, a)>>
              ELSE <<>>]))

CppExportsInclude_writeEnd(g) ==
    ostr(g, <<Line("}"), Line(""),
              [t |-> "#endif", guard |-> Include_getHeaderGuard(g)]>>)

CppExportsInclude_preamble(g, incl) ==
    <<[t |-> "#ifndef", guard |-> Include_getHeaderGuard(g)],
      [t |-> "#define", guard |-> Include_getHeaderGuard(g)], Line("")>>
    \o (IF incl # <<>>
        THEN [i \in 1..Len(incl) |-> Line(incl[i])] \o <<Line("")>>
        ELSE <<>>)

----------------------------------------------------------------------------
(* CppPackageIncludeGenerator: inst/include/<package>.h                    *)

Package_getHeaderGuard(g) == "__" \o g.package \o "_h__"

CppPackageInclude_writeEnd(g) ==
    IF hasCppInterface(g)
    THEN ostr(g,
           <<[t |-> "#ifndef", guard |-> Package_getHeaderGuard(g)],
             [t |-> "#define", guard |-> Package_getHeaderGuard(g)], Line(""),
             [t |-> "#include", file |-> g.package \o kRcppExportsSuffix],
             Line(""),
             [t |-> "#endif", guard |-> Package_getHeaderGuard(g)]>>)
    ELSE g

----------------------------------------------------------------------------
(* RExportsGenerator: R/RcppExports.R                                      *)

\* Mutant: the R wrapper without its arguments
RWrapper_noArgs(g, attribute) ==
    [i \in 1..Len(attribute.roxygen) |-> Line(attribute.roxygen[i])]
    \o
    <<[t |-> "<- function", name |-> attribute.exportedName, args |-> <<>>,
       invisible |-> isVoid(attribute.function.type),
       call |-> g.package \o "_" \o attribute.function.name,
       PACKAGE |-> g.package, callArgs |-> <<>>]>>

RWrapper(g, attribute) ==
    LET function  == attribute.function
        arguments == function.arguments
    IN  [i \in 1..Len(attribute.roxygen) |-> Line(attribute.roxygen[i])]
        \o
        <<[t |-> "<- function",
           name |-> attribute.exportedName,
           args |-> generateRArgList(function),
           invisible |-> isVoid(function.type),
           call |-> g.package \o "_" \o function.name,
           PACKAGE |-> g.package,
           callArgs |-> [i \in 1..Len(arguments) |-> arguments[i].name]]>>

RExports_doWriteFunctions(g, attributes) ==
    IF hasInterface(attributes, kInterfaceR)
    THEN ostr(g,
           Flatten([i \in 1..Len(attributes.attrs) |->
              IF isExportedFunction(attributes.attrs[i])
              THEN RWrapper(g, attributes.attrs[i])
              ELSE <<>>]))
    ELSE g

\* Mutant: the load hook emitted whether or not the C++ interface was asked for
RExports_writeEnd_always(g) ==
    ostr(g, <<[t |-> "setLoadAction",
               call |-> registerCCallableExportedName,
               PACKAGE |-> g.package]>>)

RExports_writeEnd(g) ==
    IF hasCppInterface(g)
    THEN ostr(g, <<[t |-> "setLoadAction",
                    call |-> registerCCallableExportedName,
                    PACKAGE |-> g.package]>>)
    ELSE g

----------------------------------------------------------------------------
(* Virtual dispatch on the generator's class                               *)

writeBegin(g) ==
    IF g.kind = "include" THEN CppExportsInclude_writeBegin(g) ELSE g

doWriteFunctions(g, attributes) ==
    IF g.kind = "cpp" THEN CppExports_doWriteFunctions(g, attributes)
    ELSE IF g.kind = "include" THEN CppExportsInclude_doWriteFunctions(g, attributes)
    ELSE IF g.kind = "R" THEN RExports_doWriteFunctions(g, attributes)
    ELSE g

\* ExportsGenerator::writeFunctions
writeFunctions(g, attributes) ==
    doWriteFunctions(
        IF hasInterface(attributes, kInterfaceCpp)
        THEN [g EXCEPT !.hasCppInterface = TRUE] ELSE g,
        attributes)

writeEnd(g) ==
    IF g.kind = "cpp" THEN CppExports_writeEnd(g)
    ELSE IF g.kind = "include" THEN CppExportsInclude_writeEnd(g)
    ELSE IF g.kind = "package" THEN CppPackageInclude_writeEnd(g)
    ELSE RExports_writeEnd(g)

\* Mutant: the header generators commit whether or not the C++ interface
\* was requested
commit_noRemove(g, incl, d, dr, ofsFail) ==
    IF g.kind = "cpp"
    THEN [dirs |-> dr] @@ ExportsGenerator_commit(g, CppExports_preamble(incl), d, ofsFail)
    ELSE IF g.kind = "R"
    THEN [dirs |-> dr] @@ ExportsGenerator_commit(g, <<>>, d, ofsFail)
    ELSE [dirs |-> TRUE] @@
         ExportsGenerator_commit(
             g,
             IF g.kind = "include" THEN CppExportsInclude_preamble(g, incl) ELSE <<>>,
             d, ofsFail)

\* the commit of one generator: [disk, dirs, ret]
commit(g, incl, d, dr, ofsFail) ==
    IF g.kind = "cpp"
    THEN [dirs |-> dr] @@ ExportsGenerator_commit(g, CppExports_preamble(incl), d, ofsFail)
    ELSE IF g.kind = "R"
    THEN [dirs |-> dr] @@ ExportsGenerator_commit(g, <<>>, d, ofsFail)
    ELSE IF hasCppInterface(g)
    THEN \* createDirectory(includeDir_), then commit
         [dirs |-> TRUE] @@
         ExportsGenerator_commit(
             g,
             IF g.kind = "include" THEN CppExportsInclude_preamble(g, incl) ELSE <<>>,
             d, ofsFail)
    ELSE [dirs |-> dr] @@ ExportsGenerator_remove(g, d)

----------------------------------------------------------------------------
(* ExportsGenerators: the coordinator                                      *)

ExportsGenerators_writeBegin(gs) == [i \in 1..Len(gs) |-> writeBegin(gs[i])]

ExportsGenerators_writeFunctions(gs, attributes) ==
    [i \in 1..Len(gs) |-> writeFunctions(gs[i], attributes)]

ExportsGenerators_writeEnd(gs) == [i \in 1..Len(gs) |-> writeEnd(gs[i])]

\* ExportsGenerators::commit from generator i on; failAt is the generator
\* whose target cannot be opened for writing (0: none).  The loop ends at
\* the first commit that throws.
RECURSIVE commitLoop(_, _, _, _, _)
commitLoop(gs, incl, i, failAt, acc) ==
    IF i > Len(gs) THEN acc
    ELSE LET r == commit(gs[i], incl, acc.disk, acc.dirs, i = failAt)
         IN  IF r.ret = "throw"
             THEN [acc EXCEPT !.disk = r.disk, !.dirs = r.dirs,
                              !.rets = Append(@, "throw"),
                              !.throw = "file_io_error"]
             ELSE commitLoop(gs, incl, i + 1, failAt,
                    [disk |-> r.disk, dirs |-> r.dirs,
                     updated |-> IF r.ret = "true"
                                 THEN Append(acc.updated, gs[i].targetFile)
                                 ELSE acc.updated,
                     rets |-> Append(acc.rets, r.ret),
                     throw |-> ""])

ExportsGenerators_commit(gs, incl, d, dr, failAt) ==
    commitLoop(gs, incl, 1, failAt,
               [disk |-> d, dirs |-> dr, updated |-> <<>>, rets |-> <<>>,
                throw |-> ""])

RECURSIVE removeLoop(_, _, _)
removeLoop(gs, i, acc) ==
    IF i > Len(gs) THEN acc
    ELSE LET r == ExportsGenerator_remove(gs[i], acc.disk)
         IN  removeLoop(gs, i + 1,
               [disk |-> r.disk,
                updated |-> IF r.ret = "true"
                            THEN Append(acc.updated, gs[i].targetFile)
                            ELSE acc.updated,
                rets |-> Append(acc.rets, r.ret)])

ExportsGenerators_remove(gs, d) ==
    removeLoop(gs, 1, [disk |-> d, updated |-> <<>>, rets |-> <<>>])

----------------------------------------------------------------------------
(* Inputs: the declarations the attributes parser hands to the generators  *)

argX == [type |-> "int", name |-> "x", defaultValue |-> <<"1">>]

argY == [type |-> "double", name |-> "y", defaultValue |-> <<"2", ".", "5">>]

argZ == [type |-> "int", name |-> "z", defaultValue |-> <<>>]

\* double f(int x = 1, double y = 2.5), exported under its own name
attrF == [exported |-> TRUE, exportedName |-> "f", roxygen |-> <<>>,
          function |-> [type |-> "double", name |-> "f",
                        arguments |-> <<argX, argY>>]]

\* void g(), exported as h, with a roxygen line
attrG == [exported |-> TRUE, exportedName |-> "h", roxygen |-> <<"#' doc">>,
          function |-> [type |-> "void", name |-> "g", arguments |-> <<>>]]

\* int k(int x = 1), exported as .k (hidden)
attrK == [exported |-> TRUE, exportedName |-> ".k", roxygen |-> <<>>,
          function |-> [type |-> "int", name |-> "k", arguments |-> <<argX>>]]

\* an attribute that is not an exported function (e.g. Rcpp::depends)
attrN == [exported |-> FALSE, exportedName |-> "", roxygen |-> <<>>,
          function |-> [type |-> "", name |-> "", arguments |-> <<>>]]

FileAttrs == {<<attrN>>, <<attrF>>, <<attrK>>, <<attrG, attrF>>}

\* interfaces(r), interfaces(r, cpp), interfaces(cpp)
Files ==
    {[hasCpp |-> i[1], hasR |-> i[2], attrs |-> a] :
        i \in {<<FALSE, TRUE>>, <<TRUE, TRUE>>, <<TRUE, FALSE>>}, a \in FileAttrs}

IncludeSets == {<<>>, <<"#include <RcppArmadillo.h>">>}

argW == [type |-> "double", name |-> "w", defaultValue |-> <<"t", "r", "u", "e">>]

NewArgs == <<argY, argZ, argW>>

\* the attribute with one argument added at the end of its signature
AddArg(attr) ==
    [attr EXCEPT !.function.arguments =
                    Append(@, NewArgs[(Len(@) % Len(NewArgs)) + 1])]

\* batch b with an argument added to attribute j of file i
WithArgAdded(b, i, j) == [b EXCEPT ![i].attrs[j] = AddArg(@)]

\* the places <<file, attribute>> of batch b where an argument can be added
Addable(b) ==
    UNION {{<<i, j>> : j \in {k \in 1..Len(b[i].attrs) :
                                /\ isExportedFunction(b[i].attrs[k])
                                /\ Len(b[i].attrs[k].function.arguments) < MaxArgs}} :
           i \in 1..Len(b)}

FirstAddable(b) ==
    CHOOSE at \in Addable(b) :
        \A o \in Addable(b) : at[1] < o[1] \/ (at[1] = o[1] /\ at[2] <= o[2])

\* a previously generated file: the marker and nothing else
GeneratedFile(kind) ==
    [exists |-> TRUE,
     text |-> <<MarkerLine(commentPrefixOf(kind)),
                TokenLine(commentPrefixOf(kind)), Line("")>>,
     writes |-> 0]

\* a hand-written file
ForeignFile == [exists |-> TRUE, text |-> <<Line("hand-written")>>, writes |-> 0]

InitialDisks ==
    {d \in [Paths -> {NoFile, ForeignFile} \cup
                     {GeneratedFile(Kinds[i]) : i \in 1..Len(Kinds)}] :
        \A i \in 1..Len(Kinds) :
            d[targetFileOf(Kinds[i])] \in
                {NoFile, ForeignFile, GeneratedFile(Kinds[i])}}

includeDirNeeded(d) ==
    \/ d[targetFileOf("include")].exists
    \/ d[targetFileOf("package")].exists

----------------------------------------------------------------------------
(* The generation run: construct and add the generators, writeBegin,       *)
(* writeFunctions once per source file, writeEnd, then commit or remove    *)

\* no default value has been handed to the translator
NoTranslation == [stage |-> "idle", frags |-> 0, cppArg |-> <<>>, type |-> "",
                  rArg |-> <<>>, argList |-> <<>>, warnings |-> <<>>]

\* operator- has not been applied
NoExpression == [stage |-> "idle", class |-> "", RTYPE |-> "", LHS_NA |-> TRUE,
                 RHS_NA |-> TRUE, lhs |-> <<>>, rhs |-> <<>>, i |-> -1,
                 result |-> [kind |-> "none"], size |-> -1]

NoPrev == [batch |-> <<>>, includes |-> <<>>, disk |-> [p \in Paths |-> NoFile],
           updated |-> <<>>, changed |-> <<0, 0>>]

InitWith(disks) ==
    /\ disk \in disks
    /\ dirs \in {b \in BOOLEAN : includeDirNeeded(disk) => b}
    /\ pc = "construct"
    /\ gens = <<>>
    /\ batch = <<>>
    /\ plan = [fixed |-> FALSE, files |-> <<>>]
    /\ includes = <<>>
    /\ updated = <<>>
    /\ err = ""
    /\ committed = <<>>
    /\ disk0 = disk
    /\ run = 1
    /\ prev = NoPrev
    /\ tr = NoTranslation
    /\ sugar = NoExpression

Init == InitWith(InitialDisks)

\* generators.add(new <Kind>Generator(packageDir, package, fileSep))
Construct ==
    /\ pc = "construct"
    /\ \E ifsFail \in BOOLEAN :
        LET r == ExportsGenerator_new(Kinds[Len(gens) + 1], disk, ifsFail)
        IN  IF r.throw # ""
            THEN /\ err' = r.throw
                 /\ pc' = "failed"
                 /\ gens' = gens
            ELSE /\ err' = err
                 /\ gens' = Append(gens, r.g)
                 /\ pc' = IF Len(gens) + 1 = Len(Kinds) THEN "begin" ELSE "construct"
    /\ UNCHANGED <<disk, dirs, batch, plan, includes, updated, committed, disk0,
                   run, prev, tr, sugar>>

WriteBegin ==
    /\ pc = "begin"
    /\ gens' = ExportsGenerators_writeBegin(gens)
    /\ pc' = "functions"
    /\ UNCHANGED <<disk, dirs, batch, plan, includes, updated, err, committed,
                   disk0, run, prev, tr, sugar>>

WriteFunctions ==
    /\ pc = "functions"
    /\ Len(batch) < (IF plan.fixed THEN Len(plan.files) ELSE MaxFiles)
    /\ \E attributes \in (IF plan.fixed THEN {plan.files[Len(batch) + 1]} ELSE Files) :
        /\ gens' = ExportsGenerators_writeFunctions(gens, attributes)
        /\ batch' = Append(batch, attributes)
    /\ UNCHANGED <<disk, dirs, pc, plan, includes, updated, err, committed, disk0,
                   run, prev, tr, sugar>>

\* Mutant: writeEnd also writes the adapter file
WriteEnd_flushes ==
    /\ pc = "functions"
    /\ plan.fixed => Len(batch) = Len(plan.files)
    /\ gens' = ExportsGenerators_writeEnd(gens)
    /\ disk' = [disk EXCEPT ![targetFileOf("cpp")] =
                    [exists |-> TRUE, text |-> gens'[1].code,
                     writes |-> @.writes + 1]]
    /\ pc' = "end"
    /\ UNCHANGED <<dirs, batch, plan, includes, updated, err, committed,
                   disk0, run, prev, tr, sugar>>

WriteEnd ==
    /\ pc = "functions"
    /\ plan.fixed => Len(batch) = Len(plan.files)
    /\ gens' = ExportsGenerators_writeEnd(gens)
    /\ pc' = "end"
    /\ UNCHANGED <<disk, dirs, batch, plan, includes, updated, err, committed,
                   disk0, run, prev, tr, sugar>>

Commit ==
    /\ pc = "end"
    /\ \E incl \in (IF plan.fixed THEN {includes} ELSE IncludeSets),
          failAt \in 0..Len(gens) :
        LET r == ExportsGenerators_commit(gens, incl, disk, dirs, failAt)
        IN  /\ failAt # 0 => r.throw # ""
            /\ disk' = r.disk
            /\ dirs' = r.dirs
            /\ includes' = incl
            /\ updated' = r.updated
            /\ committed' = r.rets
            /\ err' = r.throw
            /\ pc' = IF r.throw # "" THEN "failed" ELSE "done"
    /\ UNCHANGED <<gens, batch, plan, disk0, run, prev, tr, sugar>>

Remove ==
    /\ pc = "end"
    /\ LET r == ExportsGenerators_remove(gens, disk)
       IN  /\ disk' = r.disk
           /\ updated' = r.updated
           /\ committed' = r.rets
    /\ pc' = "removed"
    /\ UNCHANGED <<dirs, gens, batch, plan, includes, err, disk0, run, prev, tr, sugar>>

\* the next generation run over the same package root, with freshly
\* constructed generators: over the same declarations, or with one argument
\* added to the first exported function that can take one
Rerun ==
    /\ pc = "done"
    /\ run < MaxRuns
    /\ \E addArg \in BOOLEAN :
        /\ addArg => Addable(batch) # {}
        /\ LET at == IF addArg THEN FirstAddable(batch) ELSE <<0, 0>>
           IN  /\ plan' = [fixed |-> TRUE,
                           files |-> IF addArg
                                     THEN WithArgAdded(batch, at[1], at[2])
                                     ELSE batch]
               /\ prev' = [batch |-> batch, includes |-> includes, disk |-> disk,
                           updated |-> updated, changed |-> at]
    /\ pc' = "construct"
    /\ gens' = <<>>
    /\ batch' = <<>>
    /\ updated' = <<>>
    /\ committed' = <<>>
    /\ err' = ""
    /\ disk0' = disk
    /\ run' = run + 1
    /\ UNCHANGED <<disk, dirs, includes, tr, sugar>>

Next ==
    \/ Construct
    \/ WriteBegin
    \/ WriteFunctions
    \/ WriteEnd
    \/ Commit
    \/ Remove

Spec == Init /\ [][Next]_vars

\* re-runs start from a package root that holds no artifact yet
InitRerun == InitWith({d \in InitialDisks : \A p \in Paths : d[p] = NoFile})

NextRerun == Next \/ Rerun

SpecRerun == InitRerun /\ [][NextRerun]_vars

----------------------------------------------------------------------------
(* The literal translator on its own: a default value is put together from *)
(* pieces of C++ source text and handed to cppArgToRArg under a declared   *)
(* type, or to generateRArgList as the default of the middle argument of a *)
(* three-argument function                                                 *)

\* the pieces a default value is made of
Fragments ==
    {<<"\"">>, <<"'">>, Str_create, Str_Matrix, Str_true, Str_NA_REAL,
     <<"1">>, <<".">>, Str_L, <<" ">>, <<"x">>, <<"-">>, <<"(", "2", ")">>,
     Str_IntegerVector, Str_CharacterVector, Str_RcppScope \o Str_NumericVector}

DeclaredTypes == {"int", "double", "float"}

\* void fn(int z, <type> a = <cppArg>, double y = 2.5)
FunctionWithDefault(type, cppArg) ==
    [type |-> "void", name |-> "fn",
     arguments |-> <<argZ, [type |-> type, name |-> "a", defaultValue |-> cppArg],
                     argY>>]

InitLiteral ==
    /\ InitWith({[p \in Paths |-> NoFile]})
    /\ ~dirs

\* one more piece of source text is appended to the default value
AppendFragment ==
    /\ tr.stage \in {"idle", "input"}
    /\ tr.frags < MaxFrags
    /\ \E f \in Fragments :
        tr' = [tr EXCEPT !.stage = "input", !.cppArg = @ \o f, !.frags = @ + 1]
    /\ UNCHANGED <<disk, dirs, pc, gens, batch, plan, includes, updated, err,
                   committed, disk0, run, prev, sugar>>

\* rArg = cppArgToRArg(type, cppArg)
Translate ==
    /\ tr.stage \in {"idle", "input"}
    /\ \E type \in DeclaredTypes :
        tr' = [tr EXCEPT !.stage = "translated", !.type = type,
                         !.rArg = cppArgToRArg(type, tr.cppArg)]
    /\ UNCHANGED <<disk, dirs, pc, gens, batch, plan, includes, updated, err,
                   committed, disk0, run, prev, sugar>>

\* generateRArgList(function), the default value being that of argument a
GenerateRArgList ==
    /\ tr.stage \in {"idle", "input"}
    /\ \E type \in DeclaredTypes :
        LET function == FunctionWithDefault(type, tr.cppArg)
        IN  tr' = [tr EXCEPT !.stage = "listed", !.type = type,
                             !.argList = generateRArgList(function),
                             !.warnings = showWarning(function)]
    /\ UNCHANGED <<disk, dirs, pc, gens, batch, plan, includes, updated, err,
                   committed, disk0, run, prev, sugar>>

NextLiteral ==
    \/ AppendFragment
    \/ Translate
    \/ GenerateRArgList

SpecLiteral == InitLiteral /\ [][NextLiteral]_vars

----------------------------------------------------------------------------
(* Rcpp::sugar: operator- and the expression classes it returns.  A value  *)
(* of the storage type is [kind |-> "value", v |-> n] or the NA of the     *)
(* type; a vector operand is the sequence of its elements (C++ index i is  *)
(* element i + 1) and a scalar operand a sequence of one value.            *)

INT_MAX == 2147483647

INT_MIN == -INT_MAX - 1

\* NA_INTEGER (the int INT_MIN) or NA_REAL (a NaN with R's payload)
NA_VALUE == [kind |-> "NA"]

\* a NaN that is not NA
NaN == [kind |-> "NaN"]

Value(n) == [kind |-> "value", v |-> n]

\* the result of a signed overflow other than the wrapped value
Undefined == [kind |-> "undefined"]

\* an operator[] that does not compile
IllFormed == [kind |-> "ill-formed"]

RTypes == {"INTSXP", "REALSXP"}

\* Rcpp::traits::is_na<RTYPE>(x)
is_na(RTYPE, x) == x.kind = "NA"

\* the value an int holds
OfInt(n) == IF n = INT_MIN THEN NA_VALUE ELSE Value(n)

\* int x - int y for x, y that are NA_INTEGER or small: the exact
\* difference, or on overflow the wrapped difference or anything else
int_minus(x, y) ==
    IF x.kind = "value" /\ y.kind = "value" THEN {Value(x.v - y.v)}
    ELSE IF x.kind = "value"
    \* x - INT_MIN = x + 2^31
    THEN IF x.v < 0 THEN {Value(INT_MAX + (x.v + 1))}
         ELSE {OfInt(INT_MIN + x.v), Undefined}
    ELSE IF y.kind = "value"
    \* INT_MIN - y
    THEN IF y.v <= 0 THEN {OfInt(INT_MIN - y.v)}
         ELSE {Value(INT_MAX - (y.v - 1)), Undefined}
    ELSE {Value(0)}

\* x - y on the storage type, as the set of results a build can give; a
\* double subtraction with a NaN operand gives a NaN whose payload, and so
\* whether it still is NA, depends on the platform
STORAGE_minus(RTYPE, x, y) ==
    IF RTYPE = "INTSXP" THEN int_minus(x, y)
    ELSE IF x.kind = "NA" \/ y.kind = "NA" THEN {NA_VALUE, NaN}
    ELSE IF x.kind = "NaN" \/ y.kind = "NaN" THEN {NaN}
    ELSE {Value(x.v - y.v)}

\* Minus_Vector_Vector<RTYPE,LHS_NA,LHS_T,RHS_NA,RHS_T>::operator[]
Minus_Vector_Vector_generic(RTYPE, lhs, rhs, i) ==
    LET x == lhs[i + 1]
        y == rhs[i + 1]
    IN  IF is_na(RTYPE, x) THEN {x}
        ELSE IF is_na(RTYPE, y) THEN {y} ELSE STORAGE_minus(RTYPE, x, y)

\* Minus_Vector_Vector<RTYPE,false,LHS_T,RHS_NA,RHS_T>::operator[]
Minus_Vector_Vector_lhs_false(RTYPE, lhs, rhs, i) ==
    LET y == rhs[i + 1]
    IN  IF is_na(RTYPE, y) THEN {y} ELSE STORAGE_minus(RTYPE, lhs[i + 1], y)

\* Minus_Vector_Vector<RTYPE,LHS_NA,LHS_T,false,RHS_T>::operator[]
Minus_Vector_Vector_rhs_false(RTYPE, lhs, rhs, i) ==
    LET x == lhs[i + 1]
    IN  IF is_na(RTYPE, x) THEN {x} ELSE STORAGE_minus(RTYPE, x, rhs[i + 1])

\* Minus_Vector_Vector<RTYPE,false,LHS_T,false,RHS_T>::operator[]
Minus_Vector_Vector_false_false(RTYPE, lhs, rhs, i) ==
    STORAGE_minus(RTYPE, lhs[i + 1], rhs[i + 1])

\* the specialization the template arguments select
Minus_Vector_Vector(RTYPE, LHS_NA, RHS_NA, lhs, rhs, i) ==
    IF ~LHS_NA /\ ~RHS_NA THEN Minus_Vector_Vector_false_false(RTYPE, lhs, rhs, i)
    ELSE IF ~LHS_NA THEN Minus_Vector_Vector_lhs_false(RTYPE, lhs, rhs, i)
    ELSE IF ~RHS_NA THEN Minus_Vector_Vector_rhs_false(RTYPE, lhs, rhs, i)
    ELSE Minus_Vector_Vector_generic(RTYPE, lhs, rhs, i)

\* Minus_Vector_Primitive<RTYPE,NA,T>::operator[], rhs_na being
\* is_na<RTYPE>(rhs_)
Minus_Vector_Primitive_generic(RTYPE, lhs, rhs, i) ==
    IF is_na(RTYPE, rhs) THEN {rhs}
    ELSE LET x == lhs[i + 1]
         IN  IF is_na(RTYPE, x) THEN {x} ELSE STORAGE_minus(RTYPE, x, rhs)

\* Minus_Vector_Primitive<RTYPE,false,T>::operator[]: it subscripts the
\* scalar (rhs[i]) and subtracts from the vector (lhs - x), which is not a
\* STORAGE: instantiating it is a compile error
Minus_Vector_Primitive_false(RTYPE, lhs, rhs, i) == {IllFormed}

Minus_Vector_Primitive(RTYPE, NA, lhs, rhs, i) ==
    IF NA THEN Minus_Vector_Primitive_generic(RTYPE, lhs, rhs, i)
    ELSE Minus_Vector_Primitive_false(RTYPE, lhs, rhs, i)

\* Minus_Primitive_Vector<RTYPE,NA,T>::operator[], lhs_na being
\* is_na<RTYPE>(lhs_)
Minus_Primitive_Vector_generic(RTYPE, lhs, rhs, i) ==
    IF is_na(RTYPE, lhs) THEN {lhs} ELSE STORAGE_minus(RTYPE, lhs, rhs[i + 1])

\* Minus_Primitive_Vector<RTYPE,false,T>: the constructor initializes and
\* operator[] reads lhs_na, but the member declared is rhs_na: instantiating
\* it is a compile error
Minus_Primitive_Vector_false(RTYPE, lhs, rhs, i) == {IllFormed}

Minus_Primitive_Vector(RTYPE, NA, lhs, rhs, i) ==
    IF NA THEN Minus_Primitive_Vector_generic(RTYPE, lhs, rhs, i)
    ELSE Minus_Primitive_Vector_false(RTYPE, lhs, rhs, i)
----------------------------------------------------------------------------
(* operator- applied to operands drawn from small sets, and the resulting  *)
(* expression asked for its size or for one of its elements                *)

StorageValues == {NA_VALUE} \cup {Value(n) : n \in {-1, 0, 2}}

Vectors(n) == [1..n -> StorageValues]

\* the NA template argument of a VectorBase says the truth: false only for
\* a vector without NA
Truthful(NA, vector) ==
    NA \/ \A k \in 1..Len(vector) : vector[k].kind # "NA"

\* size() of the expression e
size(e) == IF e.class = "Minus_Primitive_Vector" THEN Len(e.rhs) ELSE Len(e.lhs)

\* operator[] of the expression e
Subscripted(e, i) ==
    IF e.class = "Minus_Vector_Vector"
    THEN Minus_Vector_Vector(e.RTYPE, e.LHS_NA, e.RHS_NA, e.lhs, e.rhs, i)
    ELSE IF e.class = "Minus_Vector_Primitive"
    THEN Minus_Vector_Primitive(e.RTYPE, e.LHS_NA, e.lhs, e.rhs[1], i)
    ELSE Minus_Primitive_Vector(e.RTYPE, e.RHS_NA, e.lhs[1], e.rhs, i)

InitMinus ==
    /\ InitWith({[p \in Paths |-> NoFile]})
    /\ ~dirs

\* operator-(VectorBase lhs, VectorBase rhs), the operands of one length
OperatorMinus_VectorVector ==
    /\ sugar.stage = "idle"
    /\ \E RTYPE \in RTypes, n \in 0..MaxLen, LHS_NA \in BOOLEAN, RHS_NA \in BOOLEAN :
        \E lhs \in Vectors(n), rhs \in Vectors(n) :
            /\ Truthful(LHS_NA, lhs) /\ Truthful(RHS_NA, rhs)
            /\ sugar' = [sugar EXCEPT !.stage = "built",
                                      !.class = "Minus_Vector_Vector",
                                      !.RTYPE = RTYPE, !.LHS_NA = LHS_NA,
                                      !.RHS_NA = RHS_NA, !.lhs = lhs, !.rhs = rhs]
    /\ UNCHANGED <<disk, dirs, pc, gens, batch, plan, includes, updated, err,
                   committed, disk0, run, prev, tr>>

\* operator-(VectorBase lhs, STORAGE rhs)
OperatorMinus_VectorPrimitive ==
    /\ sugar.stage = "idle"
    /\ \E RTYPE \in RTypes, n \in 0..MaxLen, NA \in BOOLEAN, rhs \in StorageValues :
        \E lhs \in Vectors(n) :
            /\ Truthful(NA, lhs)
            /\ sugar' = [sugar EXCEPT !.stage = "built",
                                      !.class = "Minus_Vector_Primitive",
                                      !.RTYPE = RTYPE, !.LHS_NA = NA,
                                      !.lhs = lhs, !.rhs = <<rhs>>]
    /\ UNCHANGED <<disk, dirs, pc, gens, batch, plan, includes, updated, err,
                   committed, disk0, run, prev, tr>>

\* operator-(STORAGE lhs, VectorBase rhs)
OperatorMinus_PrimitiveVector ==
    /\ sugar.stage = "idle"
    /\ \E RTYPE \in RTypes, n \in 0..MaxLen, NA \in BOOLEAN, lhs \in StorageValues :
        \E rhs \in Vectors(n) :
            /\ Truthful(NA, rhs)
            /\ sugar' = [sugar EXCEPT !.stage = "built",
                                      !.class = "Minus_Primitive_Vector",
                                      !.RTYPE = RTYPE, !.RHS_NA = NA,
                                      !.lhs = <<lhs>>, !.rhs = rhs]
    /\ UNCHANGED <<disk, dirs, pc, gens, batch, plan, includes, updated, err,
                   committed, disk0, run, prev, tr>>

\* expression.size()
Size ==
    /\ sugar.stage = "built"
    /\ sugar' = [sugar EXCEPT !.stage = "sized", !.size = size(sugar)]
    /\ UNCHANGED <<disk, dirs, pc, gens, batch, plan, includes, updated, err,
                   committed, disk0, run, prev, tr>>

\* expression[i] for an index below size()
Subscript ==
    /\ sugar.stage = "built"
    /\ \E i \in 0..(size(sugar) - 1) :
        \E result \in Subscripted(sugar, i) :
            sugar' = [sugar EXCEPT !.stage = "read", !.i = i, !.result = result]
    /\ UNCHANGED <<disk, dirs, pc, gens, batch, plan, includes, updated, err,
                   committed, disk0, run, prev, tr>>

NextMinus ==
    \/ OperatorMinus_VectorVector
    \/ OperatorMinus_VectorPrimitive
    \/ OperatorMinus_PrimitiveVector
    \/ Size
    \/ Subscript

SpecMinus == InitMinus /\ [][NextMinus]_vars

----------------------------------------------------------------------------
(* Vocabulary of the properties                                            *)

PathOf(i) == targetFileOf(Kinds[i])

IndexOf(kind) == CHOOSE i \in 1..Len(Kinds) : Kinds[i] = kind

\* the statements of kind t in a text
Statements(text, t) == SelectSeq(text, LAMBDA x : x.t = t)

\* the generator reaches ExportsGenerator::commit (the header generators
\* only when the C++ interface was requested)
ReachesBaseCommit(g) == g.kind \in {"cpp", "R"} \/ g.hasCppInterface

PreambleOf(g, incl) ==
    IF g.kind = "cpp" THEN CppExports_preamble(incl)
    ELSE IF g.kind = "include" THEN CppExportsInclude_preamble(g, incl)
    ELSE <<>>

\* marker line, generator-token line, blank line, preamble, buffer
ExpectedText(g, incl) ==
    <<MarkerLine(g.commentPrefix), TokenLine(g.commentPrefix), Line("")>>
    \o PreambleOf(g, incl) \o g.code

SameContent(a, b) == a.exists = b.exists /\ a.text = b.text

WasWritten(p) == disk[p].writes > disk0[p].writes

CommitRan == pc \in {"done", "failed"} /\ committed # <<>>

AnyCpp(b) == \E i \in 1..Len(b) : b[i].hasCpp

\* the exported functions, not hidden under their exported name, of the
\* files that request the C++ interface, in processing order
RegistryOf(b) ==
    Flatten([i \in 1..Len(b) |->
        IF b[i].hasCpp
        THEN SelectSeq(b[i].attrs,
                       LAMBDA a : a.exported /\ a.exportedName \notin HiddenNames)
        ELSE <<>>])

----------------------------------------------------------------------------
(* C1: ExportsGenerator::commit(preamble) returns false and writes nothing *)
(* when the buffer is empty and the target does not exist; otherwise it    *)
(* forms marker line, token line, blank line, preamble, buffer, and writes *)
(* it and returns true exactly when it differs from the existing content   *)
(* read at construction; when equal the file is untouched and it returns   *)
(* false.                                                                  *)
C1_CommitContract ==
    CommitRan =>
        \A i \in 1..Len(committed) :
            (ReachesBaseCommit(gens[i]) /\ committed[i] # "throw") =>
                LET g    == gens[i]
                    p    == g.targetFile
                    text == ExpectedText(g, includes)
                IN  IF g.code = <<>> /\ ~disk0[p].exists
                    THEN committed[i] = "false" /\ disk[p] = disk0[p]
                    ELSE IF text # g.existingCode
                    THEN /\ committed[i] = "true"
                         /\ disk[p].exists /\ disk[p].text = text
                         /\ disk[p].writes = disk0[p].writes + 1
                    ELSE committed[i] = "false" /\ disk[p] = disk0[p]

\* a commit in which one generator wrote and another found its text equal
\* to the existing file and left it alone
C1_Witness ==
    /\ pc = "done"
    /\ \E i, j \in 1..Len(committed) :
        /\ ReachesBaseCommit(gens[i]) /\ committed[i] = "true"
        /\ ReachesBaseCommit(gens[j]) /\ committed[j] = "false"
        /\ disk0[gens[j].targetFile].exists
        /\ ExpectedText(gens[j], includes) = gens[j].existingCode

----------------------------------------------------------------------------
(* C2 as stated: for every generator, the artifact is written by commit    *)
(* if and only if the generated content (header + body) differs from what  *)
(* is on disk, a missing file counting as different.                       *)
C2_Original ==
    pc = "done" =>
        \A i \in 1..Len(gens) :
            WasWritten(PathOf(i)) <=>
                (\/ ~disk0[PathOf(i)].exists
                 \/ disk0[PathOf(i)].text # ExpectedText(gens[i], includes))

(* C2 amended: the artifact is written by commit if and only if its        *)
(* generator reaches ExportsGenerator::commit, the generated content       *)
(* differs from what is on disk, and it is not the case that the buffer is *)
(* empty and the target missing.                                           *)
C2_WrittenIffChanged ==
    pc = "done" =>
        \A i \in 1..Len(gens) :
            WasWritten(PathOf(i)) <=>
                (/\ ReachesBaseCommit(gens[i])
                 /\ ~(gens[i].code = <<>> /\ ~disk0[PathOf(i)].exists)
                 /\ (\/ ~disk0[PathOf(i)].exists
                     \/ disk0[PathOf(i)].text # ExpectedText(gens[i], includes)))

\* a commit that wrote one artifact and skipped an empty one that was missing
C2_Witness ==
    /\ pc = "done"
    /\ \E i, j \in 1..Len(gens) :
        /\ WasWritten(PathOf(i))
        /\ ReachesBaseCommit(gens[j]) /\ gens[j].code = <<>>
        /\ ~disk0[PathOf(j)].exists /\ ~disk[PathOf(j)].exists

----------------------------------------------------------------------------
(* C3: running the whole protocol twice over the same declarations and     *)
(* include lines, with freshly constructed generators, leaves the same     *)
(* artifacts on disk and the second commit returns no changed path.        *)
C3_Idempotent ==
    (pc = "done" /\ run > 1 /\ prev.changed = <<0, 0>>) =>
        /\ batch = prev.batch /\ includes = prev.includes
        /\ updated = <<>>
        /\ disk = prev.disk

\* a second run over declarations that request the C++ interface, with all
\* four artifacts on disk
C3_Witness ==
    /\ pc = "done" /\ run > 1 /\ prev.changed = <<0, 0>>
    /\ AnyCpp(batch)
    /\ prev.updated # <<>>
    /\ \A p \in Paths : disk[p].exists

----------------------------------------------------------------------------
(* C4: constructing a generator on a target whose file lacks the marker    *)
(* fails with file_exists and leaves the file unmodified; an existing file *)
(* that cannot be read fails with file_io_error; a missing target yields   *)
(* empty existing content; no artifact has been written when the           *)
(* file_exists conflict is raised.                                         *)
C4_Construction ==
    /\ \A i \in 1..Len(gens) :
        /\ ~disk0[PathOf(i)].exists => gens[i].existingCode = <<>>
        /\ disk0[PathOf(i)].exists =>
              /\ gens[i].existingCode = disk0[PathOf(i)].text
              /\ disk0[PathOf(i)] # ForeignFile
    /\ (pc = "failed" /\ err = "file_exists") =>
        /\ Len(gens) < Len(Kinds)
        /\ disk0[PathOf(Len(gens) + 1)] = ForeignFile
        /\ disk = disk0
    /\ (pc = "failed" /\ err = "file_io_error" /\ committed = <<>>) =>
        /\ Len(gens) < Len(Kinds)
        /\ disk0[PathOf(Len(gens) + 1)].exists
        /\ disk = disk0

\* the third generator met a hand-written file after two were constructed,
\* one of them on a missing target
C4_Witness ==
    /\ pc = "failed" /\ err = "file_exists"
    /\ Len(gens) = 2
    /\ ~disk0[PathOf(1)].exists /\ disk0[PathOf(2)].exists

----------------------------------------------------------------------------
(* C5: when no processed file requests the C++ interface, the              *)
(* cross-extension header and the umbrella header are both absent from     *)
(* disk after commit, whether or not they existed before the run.          *)
C5_ConditionalArtifacts ==
    (pc = "done" /\ ~AnyCpp(batch)) =>
        /\ ~disk[targetFileOf("include")].exists
        /\ ~disk[targetFileOf("package")].exists

\* both headers existed as generated files before a run that processed a
\* file without the C++ interface
C5_Witness ==
    /\ pc = "done" /\ batch # <<>> /\ ~AnyCpp(batch)
    /\ disk0[targetFileOf("include")] = GeneratedFile("include")
    /\ disk0[targetFileOf("package")] = GeneratedFile("package")
    /\ ~disk[targetFileOf("include")].exists

----------------------------------------------------------------------------
(* C6: for every exported function requesting the C++ interface, the       *)
(* signature the adapter generator inserts into the validator's set equals *)
(* the signature the header generator passes to validateSignature in that  *)
(* function's inline wrapper.                                              *)
InsertedSignatures ==
    Flatten(Map(LAMBDA v : v.signatures,
                Statements(gens[IndexOf("cpp")].code, "validate")))

ValidatedSignatures ==
    Map(LAMBDA w : w.validateSignature,
        Statements(gens[IndexOf("include")].code, "inline"))

C6_SignatureJoin ==
    pc \in {"end", "done", "removed"} =>
        /\ Len(InsertedSignatures) = Len(RegistryOf(batch))
        /\ Len(ValidatedSignatures) = Len(RegistryOf(batch))
        /\ \A k \in 1..Len(RegistryOf(batch)) :
            /\ InsertedSignatures[k] = ValidatedSignatures[k]
            /\ InsertedSignatures[k].args =
                  Map(LAMBDA a : a.type, RegistryOf(batch)[k].function.arguments)

\* the registry holds a function whose exported name differs from its
\* native name
C6_Witness ==
    /\ pc = "end"
    /\ \E k \in 1..Len(RegistryOf(batch)) :
        /\ RegistryOf(batch)[k].exportedName # RegistryOf(batch)[k].function.name
        /\ InsertedSignatures[k].name = RegistryOf(batch)[k].exportedName

----------------------------------------------------------------------------
(* C7: every function of the cpp-export registry is registered under the   *)
(* key <package>_<exportedName>, the key its lazy resolver in the header   *)
(* looks up, and the symbol bound under that key is the adapter function   *)
(* generated for the same native function.                                 *)
Registrations ==
    Flatten(Map(LAMBDA r : r.calls,
                Statements(gens[IndexOf("cpp")].code, "registerCCallable")))

Resolvers ==
    Map(LAMBDA w : w.resolve, Statements(gens[IndexOf("include")].code, "inline"))

Adapters == Statements(gens[IndexOf("cpp")].code, "RcppExport SEXP")

C7_RegistrationKey ==
    pc \in {"end", "done", "removed"} =>
        \A k \in 1..Len(RegistryOf(batch)) :
            LET a == RegistryOf(batch)[k] IN
            /\ k <= Len(Registrations) /\ k <= Len(Resolvers)
            /\ Registrations[k].key = Package \o "_" \o a.exportedName
            /\ Resolvers[k].name = Registrations[k].key
            /\ Resolvers[k].package = Registrations[k].package
            /\ \E n \in 1..Len(Adapters) :
                /\ Adapters[n].name = Registrations[k].fun
                /\ Adapters[n].call = a.function.name

\* a registered function whose exported name differs from its native name
C7_Witness ==
    /\ pc = "end"
    /\ \E k \in 1..Len(RegistryOf(batch)) :
        /\ RegistryOf(batch)[k].exportedName # RegistryOf(batch)[k].function.name
        /\ Registrations[k].key # Registrations[k].fun

----------------------------------------------------------------------------
(* C8 as stated: if the commit of any generator fails with an I/O error    *)
(* during ExportsGenerators::commit, every target is in the state it had   *)
(* before the commit started.                                              *)
C8_Original ==
    (pc = "failed" /\ err = "file_io_error" /\ committed # <<>>) => disk = disk0

(* C8 amended: if the commit of a generator fails with an I/O error        *)
(* during ExportsGenerators::commit, the target of that generator and of   *)
(* every generator after it are in the state they had before the commit    *)
(* started; the targets of the generators before it have been committed    *)
(* in full (left alone, written with their whole text, or removed).        *)
C8_FailedCommit ==
    (pc = "failed" /\ err = "file_io_error" /\ committed # <<>>) =>
        /\ committed[Len(committed)] = "throw"
        /\ \A i \in Len(committed)..Len(gens) : disk[PathOf(i)] = disk0[PathOf(i)]
        /\ \A i \in 1..(Len(committed) - 1) :
            \/ disk[PathOf(i)] = disk0[PathOf(i)]
            \/ /\ disk[PathOf(i)].exists
               /\ disk[PathOf(i)].text = ExpectedText(gens[i], includes)
            \/ ~disk[PathOf(i)].exists /\ ~ReachesBaseCommit(gens[i])

\* a commit that failed after an earlier generator had written its artifact
C8_Witness ==
    /\ pc = "failed" /\ err = "file_io_error"
    /\ Len(committed) > 1
    /\ \E i \in 1..(Len(committed) - 1) : WasWritten(PathOf(i))

----------------------------------------------------------------------------
(* C9: ExportsGenerators::commit returns, in the order the generators were *)
(* added, exactly the target paths whose on-disk state (content or         *)
(* existence) differs after the commit from what it was at construction;   *)
(* ExportsGenerators::remove returns exactly the paths of the files that   *)
(* existed and were deleted.                                               *)
AllPaths == [i \in 1..Len(Kinds) |-> PathOf(i)]

C9_ReportedPaths ==
    /\ pc = "done" =>
        updated = SelectSeq(AllPaths, LAMBDA p : ~SameContent(disk[p], disk0[p]))
    /\ pc = "removed" =>
        /\ updated = SelectSeq(AllPaths, LAMBDA p : disk0[p].exists)
        /\ \A p \in Paths : ~disk[p].exists

\* a commit that wrote one artifact, deleted a header and left another
\* artifact as it was
C9_Witness ==
    /\ pc = "done"
    /\ \E p, q, r \in Paths :
        /\ disk0[p].exists /\ ~disk[p].exists
        /\ WasWritten(q)
        /\ disk0[r].exists /\ disk[r] = disk0[r]

----------------------------------------------------------------------------
(* C10 as stated: for an exported function requesting both interfaces,     *)
(* re-running generation after adding one argument to its signature makes  *)
(* commit report exactly two changed paths, and the umbrella header is     *)
(* unaffected.                                                             *)
ArgAddedToBoth ==
    /\ pc = "done" /\ run > 1 /\ prev.changed # <<0, 0>>
    /\ prev.batch[prev.changed[1]].hasCpp /\ prev.batch[prev.changed[1]].hasR

ChangedAttr == prev.batch[prev.changed[1]].attrs[prev.changed[2]]

C10_Original ==
    ArgAddedToBoth =>
        /\ Len(updated) = 2
        /\ disk[targetFileOf("package")] = prev.disk[targetFileOf("package")]

(* C10 amended: the re-run changes exactly the artifacts that contain the  *)
(* signature: the adapter file, the host-language wrapper and, unless the  *)
(* function is hidden under its exported name, the cross-extension header  *)
(* (three changed paths, two for a hidden function); the umbrella header   *)
(* is unaffected.                                                          *)
C10_ArgAdded ==
    ArgAddedToBoth =>
        /\ Range(updated) =
              {targetFileOf("cpp"), targetFileOf("R")} \cup
              (IF ChangedAttr.exportedName \in HiddenNames THEN {}
               ELSE {targetFileOf("include")})
        /\ Len(updated) = Cardinality(Range(updated))
        /\ disk[targetFileOf("package")] = prev.disk[targetFileOf("package")]
        /\ disk[targetFileOf("package")].exists

\* a re-run after an argument was added to a function that is not hidden
C10_Witness ==
    /\ ArgAddedToBoth
    /\ ChangedAttr.exportedName \notin HiddenNames
    /\ Len(updated) = 3

----------------------------------------------------------------------------
(* Vocabulary of the literal translator's properties                       *)

\* the five matchers in the order cppArgToRArg tries them, each giving its
\* translation or the empty string
Matchers(type, cppArg) ==
    <<IF isQuoted(cppArg) THEN cppArg ELSE <<>>,
      cppLiteralArgToRArg(cppArg),
      cppCreateArgToRArg(cppArg),
      cppMatrixArgToRArg(cppArg),
      cppNumericArgToRArg(type, cppArg)>>

Succeeding(type, cppArg) ==
    {i \in 1..5 : Matchers(type, cppArg)[i] # <<>>}

FirstSuccess(type, cppArg) ==
    IF Succeeding(type, cppArg) = {} THEN <<>>
    ELSE Matchers(type, cppArg)[CHOOSE i \in Succeeding(type, cppArg) :
                                    \A j \in Succeeding(type, cppArg) : i <= j]

Contains(s, pat) == find(s, pat) # npos

----------------------------------------------------------------------------
\* C11: the translation of a default value is the result of the first matcher
\* that succeeds, the matchers being tried in the order quoted string,
\* literal keyword, ::create, Matrix, numeric; in particular a quoted string
\* comes back unchanged under every declared type, whatever it contains.
C11_MatcherOrder ==
    tr.stage = "translated" =>
        /\ tr.rArg = FirstSuccess(tr.type, tr.cppArg)
        /\ isQuoted(tr.cppArg) => tr.rArg = tr.cppArg

\* a quoted string that the Matrix matcher would have rewritten was
\* translated
C11_Witness ==
    /\ tr.stage = "translated"
    /\ isQuoted(tr.cppArg)
    /\ Contains(tr.cppArg, Str_Matrix)
    /\ cppMatrixArgToRArg(tr.cppArg) # <<>>
    /\ tr.rArg = tr.cppArg

----------------------------------------------------------------------------
\* the default value gets as far as the numeric matcher
ReachesNumeric(cppArg) ==
    /\ ~isQuoted(cppArg)
    /\ cppLiteralArgToRArg(cppArg) = <<>>
    /\ cppCreateArgToRArg(cppArg) = <<>>
    /\ cppMatrixArgToRArg(cppArg) = <<>>

\* a number can be read from the front of the text
ParsesAsNumber(cppArg) == extractDouble(substr(cppArg, skipws(cppArg))) > 0

RECURSIVE TrimRight(_)
TrimRight(s) ==
    IF s # <<>> /\ s[Len(s)] \in Whitespace THEN TrimRight(SubSeq(s, 1, Len(s) - 1))
    ELSE s

\* the text is a number followed by the suffix L and nothing else
LSuffixed(cppArg) ==
    /\ cppArg # <<>>
    /\ cppArg[Len(cppArg)] = "L"
    /\ LET number == TrimRight(SubSeq(cppArg, 1, Len(cppArg) - 1))
           lead   == skipws(number)
       IN  /\ Len(number) > lead
           /\ extractDouble(substr(number, lead)) = Len(number) - lead

\* C12: a default value that reaches the numeric matcher and parses as a
\* number comes back unchanged when it carries the suffix L; otherwise with
\* an L appended when it has no decimal point and the declared type is
\* neither double nor float; otherwise unchanged.  So no L is appended under
\* double or float or to a text with a decimal point, and an L-suffixed
\* literal gets no second L.
C12_NumericRule ==
    (tr.stage = "translated" /\ ReachesNumeric(tr.cppArg)
        /\ ParsesAsNumber(tr.cppArg)) =>
        /\ tr.rArg = IF LSuffixed(tr.cppArg) THEN tr.cppArg
                     ELSE IF ~Contains(tr.cppArg, <<".">>)
                             /\ tr.type \notin {"double", "float"}
                          THEN tr.cppArg \o <<"L">>
                          ELSE tr.cppArg
        /\ (tr.type \in {"double", "float"} \/ Contains(tr.cppArg, <<".">>)) =>
                tr.rArg = tr.cppArg
        /\ LSuffixed(tr.cppArg) => tr.rArg = tr.cppArg

\* an L-suffixed integer literal was translated under a declared type that
\* is neither double nor float
C12_Witness ==
    /\ tr.stage = "translated"
    /\ ReachesNumeric(tr.cppArg)
    /\ ParsesAsNumber(tr.cppArg)
    /\ LSuffixed(tr.cppArg)
    /\ ~Contains(tr.cppArg, <<".">>)
    /\ tr.type = "int"
    /\ tr.rArg = tr.cppArg

----------------------------------------------------------------------------
\* the text has the form Type::create(args...): something follows ::create
\* and the text is not a quoted string
IsCreateCall(cppArg) ==
    /\ ~isQuoted(cppArg)
    /\ Contains(cppArg, Str_create)
    /\ find(cppArg, Str_create) + Len(Str_create) < Len(cppArg)

\* the Type of Type::create(args...), without an Rcpp:: in front of it
CreateType(cppArg) ==
    LET type == SubSeq(cppArg, 1, find(cppArg, Str_create))
    IN  IF Len(type) > Len(Str_RcppScope)
           /\ SubSeq(type, 1, Len(Str_RcppScope)) = Str_RcppScope
        THEN SubSeq(type, Len(Str_RcppScope) + 1, Len(type))
        ELSE type

CreateArgs(cppArg) ==
    SubSeq(cppArg, find(cppArg, Str_create) + Len(Str_create) + 1, Len(cppArg))

\* C13: a default value Type::create(args...), with or without Rcpp:: in
\* front, is translated to character(args...), integer(args...) or
\* numeric(args...) for Type CharacterVector, IntegerVector or NumericVector,
\* the arguments verbatim, and its translation fails (is empty) for every
\* other Type.
C13_CreateTranslation ==
    (tr.stage = "translated" /\ IsCreateCall(tr.cppArg)) =>
        tr.rArg =
            IF CreateType(tr.cppArg) = Str_CharacterVector
            THEN Str_character \o CreateArgs(tr.cppArg)
            ELSE IF CreateType(tr.cppArg) = Str_IntegerVector
            THEN Str_integer \o CreateArgs(tr.cppArg)
            ELSE IF CreateType(tr.cppArg) = Str_NumericVector
            THEN Str_numeric \o CreateArgs(tr.cppArg)
            ELSE <<>>

----------------------------------------------------------------------------
Keywords ==
    {Str_true, Str_false, Str_R_NilValue, Str_NA_STRING, Str_NA_INTEGER,
     Str_NA_LOGICAL, Str_NA_REAL}

IsSupportedCreateCall(cppArg) ==
    /\ IsCreateCall(cppArg)
    /\ CreateType(cppArg) \in {Str_CharacterVector, Str_IntegerVector,
                                Str_NumericVector}

\* the text names a Matrix and goes on after the name
IsMatrixCall(cppArg) ==
    /\ Contains(cppArg, Str_Matrix)
    /\ find(cppArg, Str_Matrix) + Len(Str_Matrix) < Len(cppArg)

\* the text is a number and nothing else, or a number with the suffix L
IsNumericLiteral(cppArg) ==
    \/ LET number == TrimRight(cppArg)
           lead   == skipws(number)
       IN  /\ Len(number) > lead
           /\ extractDouble(substr(number, lead)) = Len(number) - lead
    \/ LSuffixed(cppArg)

IsSupportedLiteral(cppArg) ==
    \/ isQuoted(cppArg)
    \/ cppArg \in Keywords
    \/ IsSupportedCreateCall(cppArg)
    \/ IsMatrixCall(cppArg)
    \/ IsNumericLiteral(cppArg)

\* C14: a default value that is not a quoted string, one of the seven
\* keywords, a supported Type::create call, a Matrix call or a bare numeric
\* literal (with or without the suffix L) has an empty translation under
\* every declared type.
C14_UnsupportedIsEmpty ==
    (tr.stage = "translated" /\ ~IsSupportedLiteral(tr.cppArg)) =>
        tr.rArg = <<>>

----------------------------------------------------------------------------
\* the function whose argument list was generated
ListedFunction == FunctionWithDefault(tr.type, tr.cppArg)

\* the arguments of f whose default value is there but cannot be translated
Untranslatable(f) ==
    {i \in 1..Len(f.arguments) :
        /\ f.arguments[i].defaultValue # <<>>
        /\ cppArgToRArg(f.arguments[i].type, f.arguments[i].defaultValue) = <<>>}

\* C15: the argument list holds every argument exactly once, in order; an
\* argument whose default value cannot be translated is there by name without
\* a default and one warning names its value, the argument and the function;
\* every other argument with a default keeps its own translation; an argument
\* without default text has no default and causes no warning.
C15_ArgumentList ==
    tr.stage = "listed" =>
        LET f == ListedFunction
            a == f.arguments
        IN  /\ Len(tr.argList) = Len(a)
            /\ \A i \in 1..Len(a) :
                /\ tr.argList[i].name = a[i].name
                /\ i \in Untranslatable(f) =>
                    /\ tr.argList[i].default = <<>>
                    /\ Cardinality({k \in 1..Len(tr.warnings) :
                            /\ tr.warnings[k].argument = a[i].name
                            /\ tr.warnings[k].value = a[i].defaultValue
                            /\ tr.warnings[k].function = f.name}) = 1
                /\ (i \notin Untranslatable(f) /\ a[i].defaultValue # <<>>) =>
                    /\ tr.argList[i].default # <<>>
                    /\ tr.argList[i].default =
                            cppArgToRArg(a[i].type, a[i].defaultValue)
                /\ a[i].defaultValue = <<>> => tr.argList[i].default = <<>>
            /\ Len(tr.warnings) = Cardinality(Untranslatable(f))

\* the list of a function whose middle argument has a default value that
\* cannot be translated, between an argument without default and one whose
\* default is translated
C15_Witness ==
    /\ tr.stage = "listed"
    /\ tr.cppArg # <<>>
    /\ Untranslatable(ListedFunction) = {2}
    /\ Len(tr.warnings) = 1
    /\ Len(tr.argList) = 3
    /\ tr.argList[1].default = <<>>
    /\ tr.argList[2] = [name |-> "a", default |-> <<>>]
    /\ tr.argList[3] = [name |-> "y", default |-> <<"2", ".", "5">>]

----------------------------------------------------------------------------
\* the exported functions of the batch, in processing order
ExportedOf(b) ==
    Flatten([i \in 1..Len(b) |-> SelectSeq(b[i].attrs, isExportedFunction)])

\* those of the files that request the R interface
RExportedOf(b) ==
    Flatten([i \in 1..Len(b) |->
        IF b[i].hasR THEN SelectSeq(b[i].attrs, isExportedFunction) ELSE <<>>])

ArgNames(function) ==
    [i \in 1..Len(function.arguments) |-> function.arguments[i].name]

InlineWrappers == Statements(gens[IndexOf("include")].code, "inline")

RWrappers == Statements(gens[IndexOf("R")].code, "<- function")

Rendered == pc \in {"functions", "end", "done", "removed"}

\* C16: every artifact lists the arguments of an exported function in the
\* declared order, each list with as many entries as the function has
\* arguments: the adapter's SEXP parameters, its conversions and its call of
\* the native function; the header wrapper's forwarded arguments; the R
\* wrapper's parameters and the arguments it passes to .Call.
C16_ArgumentOrder ==
    Rendered =>
        /\ Len(Adapters) = Len(ExportedOf(batch))
        /\ \A k \in 1..Len(Adapters) :
            LET names == ArgNames(ExportedOf(batch)[k].function) IN
            /\ Adapters[k].params = [i \in 1..Len(names) |-> names[i] \o "SEXP"]
            /\ Len(Adapters[k].as) = Len(names)
            /\ \A i \in 1..Len(names) :
                /\ Adapters[k].as[i].name = names[i]
                /\ Adapters[k].as[i].from = Adapters[k].params[i]
            /\ Adapters[k].callArgs = names
        /\ Len(InlineWrappers) = Len(RegistryOf(batch))
        /\ \A k \in 1..Len(InlineWrappers) :
            LET names == ArgNames(RegistryOf(batch)[k].function) IN
            /\ InlineWrappers[k].wrap = names
            /\ Len(InlineWrappers[k].typedefParams) = Len(names)
            /\ ArgNames(InlineWrappers[k].function) = names
        /\ Len(RWrappers) = Len(RExportedOf(batch))
        /\ \A k \in 1..Len(RWrappers) :
            LET names == ArgNames(RExportedOf(batch)[k].function) IN
            /\ Len(RWrappers[k].args) = Len(names)
            /\ \A i \in 1..Len(names) : RWrappers[k].args[i].name = names[i]
            /\ RWrappers[k].callArgs = names

\* a function of two arguments was rendered into all three artifacts
C16_Witness ==
    /\ pc = "end"
    /\ \E k \in 1..Len(Adapters) :
        Len(Adapters[k].callArgs) = 2 /\ Adapters[k].callArgs[1] # Adapters[k].callArgs[2]
    /\ \E k \in 1..Len(InlineWrappers) : Len(InlineWrappers[k].wrap) = 2
    /\ \E k \in 1..Len(RWrappers) : Len(RWrappers[k].callArgs) = 2

----------------------------------------------------------------------------
\* the name of the adapter rendered for attribute a of the batch
AdapterNameOf(a) ==
    Adapters[CHOOSE j \in 1..Len(Adapters) : ExportedOf(batch)[j] = a].name

AfterWriteEnd == pc \in {"end", "done", "removed"}

(* C17 as stated: the adapter of an exported function is named             *)
(* <context>_<name>, and this same name is the symbol the registration     *)
(* function binds, the name the lazy resolver of the header asks for, and  *)
(* the name the R wrapper calls, renamed functions included.               *)
C17_Original ==
    AfterWriteEnd =>
        /\ Len(Adapters) = Len(ExportedOf(batch))
        /\ \A k \in 1..Len(ExportedOf(batch)) :
            Adapters[k].name = Package \o "_" \o ExportedOf(batch)[k].function.name
        /\ \A k \in 1..Len(RegistryOf(batch)) :
            /\ Registrations[k].fun = AdapterNameOf(RegistryOf(batch)[k])
            /\ Resolvers[k].name = AdapterNameOf(RegistryOf(batch)[k])
        /\ \A k \in 1..Len(RExportedOf(batch)) :
            RWrappers[k].call = AdapterNameOf(RExportedOf(batch)[k])

\* C17 amended: the adapter of an exported function is named
\* <context>_<name> under a context and <name> without one; this name is the
\* symbol the registration function binds and the name the R wrapper calls;
\* the lazy resolver of the header asks for the registration key
\* <package>_<exportedName>, which is the adapter's name exactly when the
\* function is exported under its native name.
C17_AdapterName ==
    /\ AfterWriteEnd =>
        /\ Len(Adapters) = Len(ExportedOf(batch))
        /\ \A k \in 1..Len(ExportedOf(batch)) :
            LET a == ExportedOf(batch)[k] IN
            /\ Adapters[k].name = Package \o "_" \o a.function.name
            /\ generateCppOne(a, FALSE, "")[1].name = a.function.name
        /\ \A k \in 1..Len(RegistryOf(batch)) :
            LET a == RegistryOf(batch)[k] IN
            /\ Registrations[k].fun = AdapterNameOf(a)
            /\ Resolvers[k].name = Registrations[k].key
            /\ Resolvers[k].name = Package \o "_" \o a.exportedName
            /\ Resolvers[k].name = AdapterNameOf(a)
                    <=> a.exportedName = a.function.name
        /\ \A k \in 1..Len(RExportedOf(batch)) :
            RWrappers[k].call = AdapterNameOf(RExportedOf(batch)[k])

\* a renamed function was rendered into the adapter file, the header and
\* the R file
C17_Witness ==
    /\ pc = "end"
    /\ \E k \in 1..Len(RegistryOf(batch)) :
        /\ RegistryOf(batch)[k].exportedName # RegistryOf(batch)[k].function.name
        /\ Resolvers[k].name # AdapterNameOf(RegistryOf(batch)[k])
        /\ Registrations[k].fun = AdapterNameOf(RegistryOf(batch)[k])
    /\ \E k \in 1..Len(RExportedOf(batch)) :
        /\ RExportedOf(batch)[k].exportedName # RExportedOf(batch)[k].function.name
        /\ RWrappers[k].call = AdapterNameOf(RExportedOf(batch)[k])

----------------------------------------------------------------------------
\* C18: every inline wrapper of the header forwards the wrapped arguments to
\* the resolved adapter; it unwraps and returns the result as the function's
\* return type when that type is not void, and has no result-unwrapping
\* return when it is void.
C18_InlineWrapperResult ==
    Rendered =>
        /\ Len(InlineWrappers) = Len(RegistryOf(batch))
        /\ \A k \in 1..Len(InlineWrappers) :
            LET function == RegistryOf(batch)[k].function IN
            /\ InlineWrappers[k].wrap = ArgNames(function)
            /\ ~isVoid(function.type) => InlineWrappers[k].returnAs = function.type
            /\ isVoid(function.type) => InlineWrappers[k].returnAs = ""

----------------------------------------------------------------------------
ValidationFunctions == Statements(gens[IndexOf("cpp")].code, "validate")

RegistrationFunctions ==
    Statements(gens[IndexOf("cpp")].code, "registerCCallable")

LoadHooks == Statements(gens[IndexOf("R")].code, "setLoadAction")

\* C19: after writeEnd the adapter buffer holds the validation function and
\* the registration function, each exactly once, and the R buffer holds the
\* load hook, if and only if at least one processed file asked for the C++
\* interface; none of them is there before writeEnd.  The registration
\* function registers every registry entry, in processing order, and then
\* the validator; the load hook calls the registration function by name.
C19_Epilogue ==
    /\ pc \in {"begin", "functions"} =>
        /\ ValidationFunctions = <<>>
        /\ RegistrationFunctions = <<>>
        /\ LoadHooks = <<>>
    /\ AfterWriteEnd =>
        LET n == IF AnyCpp(batch) THEN 1 ELSE 0 IN
        /\ Len(ValidationFunctions) = n
        /\ Len(RegistrationFunctions) = n
        /\ Len(LoadHooks) = n
        /\ AnyCpp(batch) =>
            LET calls == RegistrationFunctions[1].calls
                reg   == RegistryOf(batch)
            IN  /\ Len(calls) = Len(reg) + 1
                /\ \A k \in 1..Len(reg) :
                    /\ calls[k].key = Package \o "_" \o reg[k].exportedName
                    /\ calls[k].fun = Package \o "_" \o reg[k].function.name
                /\ calls[Len(reg) + 1].fun = ValidationFunctions[1].name
                /\ LoadHooks[1].call = RegistrationFunctions[1].name
                /\ LoadHooks[1].PACKAGE = Package

\* writeEnd ran after two files, only one of which asked for the C++
\* interface, with two functions in the registry
C19_Witness ==
    /\ pc = "end"
    /\ Len(batch) = 2
    /\ \E i \in 1..2 : ~batch[i].hasCpp
    /\ Len(RegistryOf(batch)) = 2
    /\ RegistryOf(batch)[1] # RegistryOf(batch)[2]
    /\ Len(RegistrationFunctions) = 1
    /\ Len(LoadHooks) = 1

----------------------------------------------------------------------------
IsPrefix(a, b) == Len(a) <= Len(b) /\ SubSeq(b, 1, Len(a)) = a

\* generator h is generator g with text appended to its buffer, possibly the
\* C++ interface flag raised and entries appended to its registry
OnlyAppended(g, h) ==
    /\ IsPrefix(g.code, h.code)
    /\ IsPrefix(g.cppExports, h.cppExports)
    /\ g.hasCppInterface => h.hasCppInterface
    /\ h = [g EXCEPT !.code = h.code, !.cppExports = h.cppExports,
                     !.hasCppInterface = h.hasCppInterface]

\* C20: writeBegin, writeFunctions and writeEnd leave the file system as it
\* is and only append to the generators' buffers, raise the C++ interface
\* flag and append to the registry; the target files and the include
\* directory change only in the step that commits or removes.
C20_RenderingLeavesDisk ==
    [][/\ pc \in {"begin", "functions"} =>
            /\ disk' = disk
            /\ dirs' = dirs
            /\ Len(gens') = Len(gens)
            /\ \A i \in 1..Len(gens) : OnlyAppended(gens[i], gens'[i])
       /\ (disk' # disk \/ dirs' # dirs) =>
            /\ pc = "end"
            /\ pc' \in {"done", "failed", "removed"}]_vars

\* all rendering is done, the buffers are filled, and the targets that were
\* there at construction are still as they were
C20_Witness ==
    /\ pc = "end"
    /\ \A i \in 1..Len(gens) : gens[i].code # <<>>
    /\ gens[IndexOf("cpp")].cppExports # <<>>
    /\ \A p \in Paths : disk[p].exists /\ disk[p] = disk0[p]

----------------------------------------------------------------------------
\* the functions held by the registry of the adapter generator, under their
\* exported names
RegistryFunctions ==
    {renamedTo(a.function, a.exportedName) :
        a \in Range(gens[IndexOf("cpp")].cppExports)}

\* the functions the header has an inline wrapper for
WrappedFunctions == {w.function : w \in Range(InlineWrappers)}

\* C21: whatever files have been processed, the registry of the adapter
\* generator and the inline wrappers of the header hold the same functions:
\* the exported functions, not hidden under their exported name, of the
\* files that themselves asked for the C++ interface, in processing order.
\* A file that did not ask for it adds to neither, also after an earlier
\* file has raised the generators' C++ interface flag.
C21_RegistryIsWrapped ==
    Rendered =>
        /\ gens[IndexOf("cpp")].cppExports = RegistryOf(batch)
        /\ Len(InlineWrappers) = Len(RegistryOf(batch))
        /\ \A k \in 1..Len(InlineWrappers) :
            InlineWrappers[k].function =
                renamedTo(RegistryOf(batch)[k].function,
                          RegistryOf(batch)[k].exportedName)
        /\ RegistryFunctions = WrappedFunctions

\* a file with an exported, not hidden function that did not ask for the
\* C++ interface was processed after a file that did and filled the registry
C21_Witness ==
    /\ pc = "functions"
    /\ Len(batch) = 2
    /\ batch[1].hasCpp /\ ~batch[2].hasCpp
    /\ gens[IndexOf("cpp")].hasCppInterface
    /\ \E j \in 1..Len(batch[2].attrs) :
        /\ batch[2].attrs[j].exported
        /\ batch[2].attrs[j].exportedName \notin HiddenNames
    /\ gens[IndexOf("cpp")].cppExports # <<>>
    /\ Len(gens[IndexOf("cpp")].cppExports) = Len(InlineWrappers)
    /\ Len(Adapters) > Len(InlineWrappers)

----------------------------------------------------------------------------
\* the left and the right value that element i of the expression is made of
LeftAt(e, i) ==
    IF e.class = "Minus_Primitive_Vector" THEN e.lhs[1] ELSE e.lhs[i + 1]

RightAt(e, i) ==
    IF e.class = "Minus_Vector_Primitive" THEN e.rhs[1] ELSE e.rhs[i + 1]

\* C22: for every overload of operator- and every specialization whose NA
\* flags say the truth about the operands, element i of the result, i below
\* size(), is NA when the left or the right value at i (or the scalar) is
\* NA and the left value minus the right value otherwise; size() is the
\* size of the vector operand, the left one for vector - vector.
C22_NAPropagatingMinus ==
    /\ sugar.stage = "read" =>
        sugar.result =
            IF LeftAt(sugar, sugar.i).kind = "NA"
                \/ RightAt(sugar, sugar.i).kind = "NA"
            THEN NA_VALUE
            ELSE Value(LeftAt(sugar, sugar.i).v - RightAt(sugar, sugar.i).v)
    /\ sugar.stage = "sized" =>
        sugar.size = IF sugar.class = "Minus_Primitive_Vector"
                     THEN Len(sugar.rhs) ELSE Len(sugar.lhs)

=============================================================================
